---- MODULE Spec2Model ----
(***************************************************************************)
(* A model of xcrun (src/xcrun/xcrun.c): the resolution of the search      *)
(* list from the command line, the environment and the descriptor files,   *)
(* the search for the tool, and the environment built for the tool; and of *)
(* xcode-select (src/xcode-select/xcode-select.c), which writes and prints *)
(* the developer directory.                                                *)
(*                                                                         *)
(* C strings are TLA+ strings.  Where the program scans a string character *)
(* by character (stripext, basename, parse_target_triple) the string is    *)
(* taken as the sequence of its tokens, Chars(s), and Str joins tokens     *)
(* back into a string.                                                     *)
(***************************************************************************)
EXTENDS Integers, Sequences, FiniteSets, TLC

(***************************************************************************)
(* Values of C pointers that are not strings of the program.               *)
(***************************************************************************)
\* a null pointer; "%s" of glibc prints it as (null)
NULL == "(null)"
\* a pointer field of a struct that no handler call has assigned
UNINIT == "<uninit>"
\* the bytes found where an indeterminate pointer points, or in a malloc'd
\* buffer that is not all zero
JUNK == "<junk>"
\* what a function that called exit(1) hands back
EXIT == "<exit 1>"
\* the process was killed on a bad pointer
CRASH == "<crash>"

RECURSIVE Str(_)
\* the C string made of the tokens of s
Str(s) == IF s = <<>> THEN "" ELSE Head(s) \o Str(Tail(s))

\* the contents of a fresh malloc'd buffer: all zero, or not
Malloc == {<<>>, <<JUNK>>}

\* the characters of the strings the program scans: a "." or a "/" is a token
\* of its own, a version is digit by digit
CharTable ==
    [s \in {"MacOSX10.9", "MacOSX10.9.sdk", "iPhoneOS.sdk", "iPhone.toolchain",
            "/Developer/SDKs/iPhoneOS.sdk", "/Developer/Toolchains/iPhone.toolchain",
            "/alt/My.sdk", "/alt/My.toolchain", "10.9", "10.6", "6.0", "7.1"} |->
        CASE s = "MacOSX10.9" -> <<"MacOSX10", ".", "9">>
          [] s = "MacOSX10.9.sdk" -> <<"MacOSX10", ".", "9", ".", "sdk">>
          [] s = "iPhoneOS.sdk" -> <<"iPhoneOS", ".", "sdk">>
          [] s = "iPhone.toolchain" -> <<"iPhone", ".", "toolchain">>
          [] s = "/Developer/SDKs/iPhoneOS.sdk" ->
                 <<"/", "Developer", "/", "SDKs", "/", "iPhoneOS", ".", "sdk">>
          [] s = "/Developer/Toolchains/iPhone.toolchain" ->
                 <<"/", "Developer", "/", "Toolchains", "/", "iPhone", ".", "toolchain">>
          [] s = "/alt/My.sdk" -> <<"/", "alt", "/", "My", ".", "sdk">>
          [] s = "/alt/My.toolchain" -> <<"/", "alt", "/", "My", ".", "toolchain">>
          [] s = "10.9" -> <<"1", "0", ".", "9">>
          [] s = "10.6" -> <<"1", "0", ".", "6">>
          [] s = "6.0" -> <<"6", ".", "0">>
          [] s = "7.1" -> <<"7", ".", "1">>]

\* a string without "." and "/" is one token
Chars(s) == IF s \in DOMAIN CharTable THEN CharTable[s] ELSE <<s>>

(***************************************************************************)
(* Program constants.                                                      *)
(***************************************************************************)
XCRUN_DEFAULT_CFG == "/etc/xcrun.ini"
\* the cache file of xcrun.c and the cache file of xcode-select.c
SDK_CFG == ".xcdev.dat"
DARWINSDK_CFG == ".darwinsdk.dat"

multicall_tool_names == <<"xcrun", "xcrun_log", "xcrun_verbose", "xcrun_nocache">>

(***************************************************************************)
(* stripext copies the characters of src before its first '.' into dst and *)
(* writes no terminating NUL: the string then read from dst is the copied  *)
(* characters followed by what dst held after them.                        *)
(***************************************************************************)
RECURSIVE strchr_dot(_)
\* the number of tokens of src before its first ".", Len(src) when none
strchr_dot(src) ==
    IF src = <<>> \/ Head(src) = "." THEN 0 ELSE 1 + strchr_dot(Tail(src))

stripext(dst, src) == SubSeq(src, 1, strchr_dot(src)) \o dst

RECURSIVE basename(_)
\* the tokens of path after its last "/"
basename(path) ==
    IF \E i \in 1..Len(path) : path[i] = "/" THEN basename(Tail(path)) ELSE path

(***************************************************************************)
(* get_multicall_state: the loop runs over i = 0 .. state_size - 2.        *)
(***************************************************************************)
get_multicall_state(cmd, state, state_size) ==
    LET hits == {i \in 0..(state_size - 2) : state[i + 1] = cmd}
    IN  IF hits = {} THEN -1
        ELSE (CHOOSE i \in hits : \A j \in hits : i <= j) + 1

(***************************************************************************)
(* Descriptor files.  A file is the sequence of its (section, name, value) *)
(* lines; ini_parse calls the handler on each line in file order and       *)
(* returns -1 only when the file cannot be opened.                         *)
(***************************************************************************)
Line(s, n, v) == [section |-> s, name |-> n, value |-> v]

MATCH_INI_STON(line, s, n) == line.section = s /\ line.name = n

\* user is [config, ios, macosx]: the struct being filled and the two
\* process-global deployment-target flags
sdk_cfg_handler(user, line) ==
    IF MATCH_INI_STON(line, "SDK", "name")
      THEN [user EXCEPT !.config.name = line.value]
    ELSE IF MATCH_INI_STON(line, "SDK", "version")
      THEN [user EXCEPT !.config.version = line.value]
    ELSE IF MATCH_INI_STON(line, "SDK", "toolchain")
      THEN [user EXCEPT !.config.toolchain = line.value]
    ELSE IF MATCH_INI_STON(line, "SDK", "default_arch")
      THEN [user EXCEPT !.config.default_arch = line.value]
    ELSE IF MATCH_INI_STON(line, "SDK", "ios_deployment_target")
      THEN [user EXCEPT !.ios = 1, !.macosx = 0,
                        !.config.deployment_target = line.value]
    ELSE IF MATCH_INI_STON(line, "SDK", "macosx_deployment_target")
      THEN [user EXCEPT !.ios = 0, !.macosx = 1,
                        !.config.deployment_target = line.value]
    ELSE user

default_cfg_handler(user, line) ==
    IF MATCH_INI_STON(line, "SDK", "name")
      THEN [user EXCEPT !.sdk = line.value]
    ELSE IF MATCH_INI_STON(line, "TOOLCHAIN", "name")
      THEN [user EXCEPT !.toolchain = line.value]
    ELSE user

\* the call of the handler that a function pointer names
call_handler(handler, user, line) ==
    IF handler = "sdk_cfg_handler" THEN sdk_cfg_handler(user, line)
    ELSE default_cfg_handler(user, line)

ini_parse(lines, handler, user) ==
    LET f[i \in 0..Len(lines)] ==
            IF i = 0 THEN user ELSE call_handler(handler, f[i - 1], lines[i])
    IN  f[Len(lines)]

\* sdk_config config; as declared: every field indeterminate
sdk_config == [name |-> UNINIT, version |-> UNINIT, toolchain |-> UNINIT,
               default_arch |-> UNINIT, deployment_target |-> UNINIT]

default_config == [sdk |-> UNINIT, toolchain |-> UNINIT]

(***************************************************************************)
(* The installation the runs are checked on.                               *)
(***************************************************************************)
DevDir == "/opt/dev"

SdkNames == {"MacOSX10.9", "MacOSX10", "iPhoneOS"}
ToolchainNames == {"XcodeDefault", "iPhone"}

AltSdkPath == "/alt/My.sdk"
AltToolchainPath == "/alt/My.toolchain"

SdkDir(name) == DevDir \o "/SDKs/" \o name \o ".sdk"
ToolchainDir(name) == DevDir \o "/Toolchains/" \o name \o ".toolchain"
InfoIni(dir) == dir \o "/info.ini"
UsrBin(dir) == dir \o "/usr/bin"

IniMacOSX ==
    << Line("SDK", "name", "MacOSX"), Line("SDK", "version", "10.9"),
       Line("SDK", "toolchain", "XcodeDefault"),
       Line("SDK", "default_arch", "x86_64"),
       Line("SDK", "macosx_deployment_target", "10.9") >>
\* the descriptor of the SDK MacOSX10, an older SDK that is always installed
IniMacOSX10 ==
    << Line("SDK", "name", "MacOSX10"), Line("SDK", "version", "10.6"),
       Line("SDK", "toolchain", "XcodeDefault"),
       Line("SDK", "default_arch", "x86_64"),
       Line("SDK", "macosx_deployment_target", "10.6") >>
IniIPhoneOS ==
    << Line("SDK", "name", "iPhoneOS"), Line("SDK", "version", "6.0"),
       Line("SDK", "toolchain", "iPhone"),
       Line("SDK", "default_arch", "armv7"),
       Line("SDK", "ios_deployment_target", "6.0") >>
\* both deployment-target keys, the macosx one last
IniBothMacLast ==
    << Line("SDK", "toolchain", "XcodeDefault"),
       Line("SDK", "default_arch", "x86_64"),
       Line("SDK", "ios_deployment_target", "6.0"),
       Line("SDK", "macosx_deployment_target", "10.9") >>
\* both deployment-target keys, the ios one last
IniBothIosLast ==
    << Line("SDK", "toolchain", "XcodeDefault"),
       Line("SDK", "default_arch", "x86_64"),
       Line("SDK", "macosx_deployment_target", "10.9"),
       Line("SDK", "ios_deployment_target", "6.0") >>
\* no deployment-target key
IniNoTarget ==
    << Line("SDK", "toolchain", "XcodeDefault"),
       Line("SDK", "default_arch", "x86_64") >>
\* no default_arch key
IniNoArch ==
    << Line("SDK", "toolchain", "XcodeDefault"),
       Line("SDK", "macosx_deployment_target", "10.9") >>
\* no toolchain key
IniNoToolchain ==
    << Line("SDK", "default_arch", "x86_64"),
       Line("SDK", "macosx_deployment_target", "10.9") >>

IniDefault ==
    << Line("SDK", "name", "MacOSX10.9"),
       Line("TOOLCHAIN", "name", "XcodeDefault") >>


\* the states of the descriptor of one SDK directory: no directory, a directory
\* without info.ini, a directory with one of the files above
NoDir == <<"nodir">>
NoFile == <<"nofile">>
File(lines) == <<"file", lines>>

SdkStates ==
    {NoDir, NoFile} \cup
    {File(l) : l \in {IniMacOSX, IniIPhoneOS, IniBothMacLast, IniBothIosLast,
                      IniNoTarget, IniNoArch, IniNoToolchain}}

\* the directories that may hold an executable of the tool
BinDirs ==
    {UsrBin(DevDir), UsrBin(AltSdkPath), UsrBin(AltToolchainPath)}
      \cup {UsrBin(SdkDir(n)) : n \in SdkNames}
      \cup {UsrBin(ToolchainDir(n)) : n \in ToolchainNames}

\* at most MaxExec directories hold an executable of the tool
MaxExec == 2

ToolName == "clang"
ProgNames == {"xcrun", "xcrun_log", "xcrun_verbose", "xcrun_nocache", ToolName}

\* the arguments of --sdk and --toolchain; NULL: the flag is not given
SdkArgs == {NULL, "iPhoneOS", "MacOSX10.9", AltSdkPath}
ToolchainArgs == {NULL, "XcodeDefault", "iPhone", AltToolchainPath}

EnvNames == {"DEVELOPER_DIR", "SDKROOT", "TOOLCHAINS", "IOS_DEPLOYMENT_TARGET",
             "MACOSX_DEPLOYMENT_TARGET", "TARGET_TRIPLE", "HOME"}
\* the home directory of the user
Home == "/home/u"
\* the cache files: none, or one file with its contents
NoCache == [p \in {} |-> ""]
Cache(p, contents) == [q \in {p} |-> contents]
\* the values of an environment variable; NULL: the variable is not set
EnvValues(n) ==
    CASE n = "DEVELOPER_DIR" -> {DevDir}
      [] n = "SDKROOT" -> {NULL, "/Developer/SDKs/iPhoneOS.sdk"}
      [] n = "TOOLCHAINS" -> {NULL, "/Developer/Toolchains/iPhone.toolchain"}
      [] n = "IOS_DEPLOYMENT_TARGET" -> {NULL, "7.1"}
      [] n = "MACOSX_DEPLOYMENT_TARGET" -> {NULL, "10.9"}
      [] n = "TARGET_TRIPLE" -> {NULL, "arm64-apple-darwin14"}
      [] n = "HOME" -> {NULL, Home}

\* an environment that sets DEVELOPER_DIR and nothing else
EnvUnset == [n \in EnvNames |-> IF n = "DEVELOPER_DIR" THEN DevDir ELSE NULL]

(***************************************************************************)
(* The runs that are checked: a command line, an environment and an        *)
(* installation.  The runs are four families, each with the inputs of one  *)
(* part of the program drawn in every combination and the others fixed.    *)
(***************************************************************************)
Run(prog, sdk, toolchain, find, env, mac, iphone, alt, xcdefault, dflt, bins) ==
    [prog |-> prog, sdk |-> sdk, toolchain |-> toolchain, find |-> find,
     env |-> env, mac |-> mac, iphone |-> iphone, alt |-> alt,
     xcdefault |-> xcdefault, dflt |-> dflt, bins |-> bins, cache |-> NoCache]

\* the selection of the SDK and the toolchain
SelectionRuns ==
    {Run("xcrun", sdk, toolchain, find,
         [EnvUnset EXCEPT !["SDKROOT"] = sdkroot, !["TOOLCHAINS"] = toolchains],
         File(IniMacOSX), iphone, alt, xcdefault, dflt,
         {UsrBin(ToolchainDir("iPhone"))}) :
       sdk \in SdkArgs, toolchain \in ToolchainArgs, find \in {0, 1},
       sdkroot \in EnvValues("SDKROOT"), toolchains \in EnvValues("TOOLCHAINS"),
       iphone \in {File(IniIPhoneOS), File(IniNoToolchain), NoFile},
       alt \in {NoDir, NoFile, File(IniIPhoneOS)},
       xcdefault \in BOOLEAN, dflt \in BOOLEAN}

\* the places of the tool
SearchRuns ==
    {Run("xcrun", sel[1], sel[2], find, EnvUnset, File(IniMacOSX),
         File(IniIPhoneOS), sel[3], TRUE, TRUE, bins) :
       sel \in {<<NULL, NULL, NoFile>>, <<"iPhoneOS", NULL, NoFile>>,
                <<NULL, "iPhone", NoFile>>,
                <<AltSdkPath, AltToolchainPath, NoFile>>,
                <<AltSdkPath, NULL, File(IniIPhoneOS)>>},
       find \in {0, 1},
       bins \in {b \in SUBSET BinDirs : Cardinality(b) <= MaxExec}}

\* the descriptor of the current SDK and the caller's target variables
EnvironmentRuns ==
    {Run("xcrun", sdk, NULL, 0,
         [EnvUnset EXCEPT !["IOS_DEPLOYMENT_TARGET"] = ios,
                          !["MACOSX_DEPLOYMENT_TARGET"] = macosx,
                          !["TARGET_TRIPLE"] = triple],
         mac, File(IniIPhoneOS), File(IniIPhoneOS), TRUE, TRUE, {UsrBin(DevDir)}) :
       sdk \in {NULL, AltSdkPath},
       ios \in EnvValues("IOS_DEPLOYMENT_TARGET"),
       macosx \in EnvValues("MACOSX_DEPLOYMENT_TARGET"),
       triple \in EnvValues("TARGET_TRIPLE"),
       mac \in SdkStates}

\* the name the program is called by
NameRuns ==
    {Run(prog, NULL, NULL, find, EnvUnset, File(IniMacOSX), File(IniIPhoneOS),
         NoDir, TRUE, TRUE, bins) :
       prog \in ProgNames, find \in {0, 1},
       bins \in {{}, {UsrBin(ToolchainDir("XcodeDefault"))}}}

\* the directories of the SDKs and of the toolchains, the tool being in the
\* usr/bin of the developer directory
MissingRuns ==
    {Run("xcrun", sdk, toolchain, find, EnvUnset, mac, iphone, File(IniIPhoneOS),
         xcdefault, TRUE, {UsrBin(DevDir)}) :
       sdk \in SdkArgs, toolchain \in {NULL, "XcodeDefault"}, find \in {0, 1},
       mac \in {NoDir, File(IniMacOSX)}, iphone \in {NoDir, File(IniIPhoneOS)},
       xcdefault \in BOOLEAN}

\* the SDK MacOSX10.9 by --sdk or by the default configuration, the tool in
\* the toolchain of its descriptor only
ScenarioRuns ==
    {Run("xcrun", sdk, NULL, 0, EnvUnset, File(IniMacOSX), File(IniIPhoneOS), NoDir,
         TRUE, TRUE, {UsrBin(ToolchainDir("XcodeDefault"))}) :
       sdk \in {NULL, "MacOSX10.9"}}

\* a command line, HOME and the cache files, DEVELOPER_DIR not being set
DeveloperInputs ==
    {[Run(prog, sel[1], sel[2], find,
          [EnvUnset EXCEPT !["DEVELOPER_DIR"] = NULL, !["HOME"] = home],
          File(IniMacOSX), File(IniIPhoneOS), sel[3], TRUE, TRUE,
          {UsrBin(AltToolchainPath), UsrBin(ToolchainDir("XcodeDefault"))})
        EXCEPT !.cache = cache] :
       prog \in {"xcrun", ToolName},
       sel \in {<<NULL, NULL, NoFile>>, <<"iPhoneOS", NULL, NoFile>>,
                <<NULL, "XcodeDefault", NoFile>>, <<NULL, AltToolchainPath, NoFile>>,
                <<AltSdkPath, NULL, NoFile>>, <<AltSdkPath, NULL, File(IniIPhoneOS)>>,
                <<AltSdkPath, AltToolchainPath, NoFile>>},
       find \in {0, 1},
       home \in EnvValues("HOME"),
       cache \in {NoCache, Cache(Home \o "/" \o SDK_CFG, DevDir),
                  Cache(Home \o "/" \o DARWINSDK_CFG, DevDir)}}

\* the sources of the developer directory when DEVELOPER_DIR is not set; under
\* the name of a tool the command line is the tool's
DeveloperRuns ==
    {run \in DeveloperInputs : run.prog = "xcrun" \/ (run.sdk = NULL /\ run.toolchain = NULL)}

Runs == SelectionRuns \cup SearchRuns \cup EnvironmentRuns \cup NameRuns
          \cup DeveloperRuns \cup MissingRuns \cup ScenarioRuns


VARIABLES
    fs_dirs,        \* the directories that exist
    fs_ini,         \* the descriptor files that exist, path |-> lines
    fs_exec,        \* the files that exist and are executable
    fs_cache,       \* the cache files that exist, path |-> contents
    environ,        \* the caller's environment
    argv,           \* the command line: [prog, sdk, toolchain, find]
    progname, developer_dir,
    logging_mode, verbose_mode, finding_mode,
    explicit_sdk_mode, explicit_toolchain_mode,
    ios_deployment_target_set, macosx_deployment_target_set,
    current_sdk, current_toolchain,
    alternate_sdk_path, alternate_toolchain_path,
    opt_sdk, opt_toolchain,     \* xcrun_main's sdk and toolchain (the optargs)
    tool_called,    \* the name given to request_command
    caller,         \* who called request_command: "main" or "xcrun_main"
    search_string,  \* request_command's search_string, ":" a token of its own
    strtok_rest,    \* what strtok has not returned yet
    cmd,            \* search_command's cmd
    tested,         \* the paths given to access() by search_command, in order
    envp,           \* call_command's envp[0..4], as envp[1..5]
    retval,         \* what request_command returned
    exit_status, stdout,
    pc,
    \* a call of parse_target_triple alone: the numbers and the separator that
    \* the version is written from, its characters, the architecture, the buffer
    given_components, given_separator, given_ver, given_arch, target_triple,
    \* the runs of xcode-select before the run of xcrun
    select_runs,    \* how many there were
    select_argv,    \* the command line of the last one: [switch, print]
    select_path,    \* main's path in the last one
    select_status,  \* what main returned in the last one
    select_stdout,  \* what they printed
    select_pc,      \* how the last one ended: "exit" or "crash"
    switched,       \* the paths that set_developer_path wrote, in order
    \* the runs of xcrun before this one, on the same inputs
    run_no,         \* which run this one is
    first           \* <<where the first run ended>>, <<>> during the first run

fs == <<fs_dirs, fs_ini, fs_exec, fs_cache>>
modes == <<logging_mode, verbose_mode, finding_mode, explicit_sdk_mode,
           explicit_toolchain_mode>>
target_set == <<ios_deployment_target_set, macosx_deployment_target_set>>
selection == <<current_sdk, current_toolchain, alternate_sdk_path,
               alternate_toolchain_path, opt_sdk, opt_toolchain>>
search == <<search_string, strtok_rest, cmd, tested>>
result == <<envp, retval, exit_status, stdout>>
synth == <<given_components, given_separator, given_ver, given_arch, target_triple>>
select == <<select_runs, select_argv, select_path, select_status, select_stdout,
            select_pc, switched>>
earlier == <<run_no, first>>
vars == <<synth, select, earlier, fs, environ, argv, progname, developer_dir, modes, target_set, selection,
          tool_called, caller, search, result, pc>>

\* a buffer that malloc returned and nothing has written
Buffer == [name |-> JUNK, value |-> JUNK]
\* envp[i] after sprintf(envp[i], "NAME=%s", value)
Env(n, v) == [name |-> n, value |-> v]

\* the globals and the locals before main
Idle ==
    /\ progname = NULL /\ developer_dir = NULL
    /\ logging_mode = 0 /\ verbose_mode = 0 /\ finding_mode = 0
    /\ explicit_sdk_mode = 0 /\ explicit_toolchain_mode = 0
    /\ ios_deployment_target_set = 0 /\ macosx_deployment_target_set = 0
    /\ current_sdk = NULL /\ current_toolchain = NULL
    /\ alternate_sdk_path = NULL /\ alternate_toolchain_path = NULL
    /\ opt_sdk = NULL /\ opt_toolchain = NULL
    /\ tool_called = NULL /\ caller = NULL
    /\ search_string = <<>> /\ strtok_rest = <<>> /\ cmd = NULL /\ tested = <<>>
    /\ envp = <<>> /\ retval = 0 /\ exit_status = -1 /\ stdout = <<>>
    /\ select_runs = 0 /\ select_argv = [switch |-> NULL, print |-> 0]
    /\ select_path = NULL /\ select_status = 0 /\ select_stdout = <<>>
    /\ select_pc = "idle" /\ switched = <<>>
    /\ run_no = 1 /\ first = <<>>

\* the state before main of the run of xcrun on the inputs run
Start(run) ==
    /\ fs_dirs =
         {DevDir, SdkDir("MacOSX10"), ToolchainDir("iPhone"), AltToolchainPath}
           \cup (IF run.mac = NoDir THEN {} ELSE {SdkDir("MacOSX10.9")})
           \cup (IF run.iphone = NoDir THEN {} ELSE {SdkDir("iPhoneOS")})
           \cup (IF run.alt = NoDir THEN {} ELSE {AltSdkPath})
           \cup (IF run.xcdefault THEN {ToolchainDir("XcodeDefault")} ELSE {})
    /\ fs_ini =
         [p \in {InfoIni(SdkDir("MacOSX10"))}
                  \cup (IF run.mac[1] = "file" THEN {InfoIni(SdkDir("MacOSX10.9"))} ELSE {})
                  \cup (IF run.iphone[1] = "file" THEN {InfoIni(SdkDir("iPhoneOS"))} ELSE {})
                  \cup (IF run.alt[1] = "file" THEN {InfoIni(AltSdkPath)} ELSE {})
                  \cup (IF run.dflt THEN {XCRUN_DEFAULT_CFG} ELSE {}) |->
             CASE p = InfoIni(SdkDir("MacOSX10")) -> IniMacOSX10
               [] p = InfoIni(SdkDir("MacOSX10.9")) -> run.mac[2]
               [] p = InfoIni(SdkDir("iPhoneOS")) -> run.iphone[2]
               [] p = InfoIni(AltSdkPath) -> run.alt[2]
               [] p = XCRUN_DEFAULT_CFG -> IniDefault]
    /\ fs_exec = {d \o "/" \o ToolName : d \in run.bins}
    /\ fs_cache = run.cache
    /\ environ = run.env
    /\ argv = [prog |-> run.prog, sdk |-> run.sdk, toolchain |-> run.toolchain,
               find |-> run.find]
    /\ Idle
    /\ pc = "main"
    /\ given_components = <<>> /\ given_separator = NULL
    /\ given_ver = <<>> /\ given_arch = NULL /\ target_triple = NULL

Init == \E run \in Runs : Start(run)

(***************************************************************************)
(* The helpers of xcrun.c that read the file system.                       *)
(***************************************************************************)
validate_directory_path(dir) == IF dir \in fs_dirs THEN 0 ELSE -1

access(path) == IF path \in fs_exec THEN 0 ELSE -1

\* as test_sdk_authenticity, looking for a file that no SDK has
test_sdk_authenticity_misnamed(path) ==
    IF (path \o "/Info.ini") \in DOMAIN fs_ini THEN 1 ELSE 0

test_sdk_authenticity(path) == IF InfoIni(path) \in DOMAIN fs_ini THEN 1 ELSE 0

\* the path, or EXIT
\* get_toolchain_path without the test of the directory
get_toolchain_path_unchecked(name) ==
    IF developer_dir # NULL
      THEN developer_dir \o "/Toolchains/" \o name \o ".toolchain"
      ELSE EXIT

get_toolchain_path(name) ==
    LET path == developer_dir \o "/Toolchains/" \o name \o ".toolchain"
    IN  IF developer_dir # NULL
          THEN IF validate_directory_path(path) # -1 THEN path ELSE EXIT
          ELSE EXIT

get_sdk_path(name) ==
    LET path == developer_dir \o "/SDKs/" \o name \o ".sdk"
    IN  IF developer_dir # NULL
          THEN IF validate_directory_path(path) # -1 THEN path ELSE EXIT
          ELSE EXIT

\* [exit, config, ios, macosx]: the struct returned and the two global flags
\* after the parse, given the flags before it
get_sdk_info(path, ios, macosx) ==
    LET info_path == path \o "/info.ini"
        user == [config |-> sdk_config, ios |-> ios, macosx |-> macosx]
    IN  IF info_path \in DOMAIN fs_ini
          THEN LET u == ini_parse(fs_ini[info_path], "sdk_cfg_handler", user)
               IN  [exit |-> FALSE, config |-> u.config, ios |-> u.ios,
                    macosx |-> u.macosx]
          ELSE [exit |-> TRUE, config |-> sdk_config, ios |-> ios, macosx |-> macosx]

get_default_info(path) ==
    IF path \in DOMAIN fs_ini
      THEN [exit |-> FALSE,
            config |-> ini_parse(fs_ini[path], "default_cfg_handler", default_config)]
      ELSE [exit |-> TRUE, config |-> default_config]

\* strdup(p): of a field that was never assigned, whatever the build makes of
\* the indeterminate pointer, ub: a crash, NULL, or junk
UB == {CRASH, NULL, JUNK}
strdup(p, ub) == IF p = UNINIT THEN ub ELSE p


getenv(name) == environ[name]

(***************************************************************************)
(* get_developer_path: DEVELOPER_DIR, or the contents of $HOME/.xcdev.dat. *)
(* cfg_path is malloc(strlen(HOME) + sizeof(SDK_CFG)), one byte short of   *)
(* "%s/%s" with its NUL, and the value returned points to the local array  *)
(* devpath, whose lifetime ends at the return: what the caller reads there *)
(* is the contents, junk, or nothing (a null pointer), or the process dies *)
(* of the overflow.                                                        *)
(***************************************************************************)
Dangling == {"kept", JUNK, NULL, CRASH}

get_developer_path(outcome) ==
    LET value == getenv("DEVELOPER_DIR")
        pathtocfg == getenv("HOME")
        cfg_path == pathtocfg \o "/" \o SDK_CFG
    IN  IF value # NULL THEN value
        ELSE IF pathtocfg = NULL THEN NULL
        ELSE IF outcome = CRASH THEN CRASH
        ELSE IF cfg_path \in DOMAIN fs_cache
          THEN IF outcome = "kept" THEN fs_cache[cfg_path] ELSE outcome
        ELSE NULL

(***************************************************************************)
(* main: the developer directory, then the dispatch on the calling name.   *)
(***************************************************************************)
main ==
    /\ pc = "main"
    /\ \E outcome \in Dangling :
         LET this_tool == argv.prog
             devpath == get_developer_path(outcome)
             call_state == get_multicall_state(this_tool, multicall_tool_names, 4)
         IN  /\ progname' = this_tool
             /\ IF devpath = CRASH
                  THEN /\ pc' = "crash"
                       /\ UNCHANGED <<developer_dir, logging_mode, verbose_mode,
                                      tool_called, caller>>
                  ELSE /\ developer_dir' = devpath
                       /\ logging_mode' = IF call_state = 2 THEN 1 ELSE logging_mode
                       /\ verbose_mode' = IF call_state = 3 THEN 1 ELSE verbose_mode
                       /\ IF call_state \in 1..4
                            THEN /\ pc' = "xcrun_main"
                                 /\ UNCHANGED <<tool_called, caller>>
                            ELSE /\ pc' = "request_command"
                                 /\ tool_called' = this_tool
                                 /\ caller' = "main"
    /\ UNCHANGED <<synth, select, earlier, fs,
                   environ, argv, finding_mode, explicit_sdk_mode,
                   explicit_toolchain_mode, target_set, selection, search, result>>

(***************************************************************************)
(* The fall back to the environment or to the default configuration, for   *)
(* the SDK (field "sdk", SDKROOT) and for the toolchain (field             *)
(* "toolchain", TOOLCHAINS): the new current_sdk or current_toolchain, or  *)
(* EXIT, or CRASH.                                                         *)
(***************************************************************************)
fall_back(current, env, buffer, field, ub) ==
    IF current # NULL THEN current
    ELSE IF env # NULL THEN Str(stripext(buffer, basename(Chars(env))))
    ELSE LET d == get_default_info(XCRUN_DEFAULT_CFG)
         IN  IF d.exit THEN EXIT ELSE strdup(d.config[field], ub)

\* the first character of a C string is '/'
IsAbsolute(path) == Head(Chars(path)) = "/"

(***************************************************************************)
(* xcrun_main up to its call of request_command: the options --sdk,        *)
(* --toolchain and -f/--find with the tool name, then the fall back.       *)
(***************************************************************************)
xcrun_main ==
    /\ pc = "xcrun_main"
    /\ \E b1 \in Malloc, b2 \in Malloc, ub \in UB :
         LET sdk == argv.sdk
             toolchain == argv.toolchain
             find_f == argv.find
             sdk_env == getenv("SDKROOT")
             toolchain_env == getenv("TOOLCHAINS")
             sdk_path == sdk # NULL /\ IsAbsolute(sdk)
             sdk_name == sdk # NULL /\ ~IsAbsolute(sdk)
             toolchain_path == toolchain # NULL /\ IsAbsolute(toolchain)
             toolchain_name == toolchain # NULL /\ ~IsAbsolute(toolchain)
             invalid == \/ sdk_path /\ validate_directory_path(sdk) = -1
                        \/ toolchain_path /\ validate_directory_path(toolchain) = -1
             cs0 == IF sdk_name THEN Str(stripext(b1, Chars(sdk))) ELSE NULL
             ct0 == IF toolchain_name THEN Str(stripext(b2, Chars(toolchain))) ELSE NULL
             cs == fall_back(cs0, sdk_env, b1, "sdk", ub)
             ct == fall_back(ct0, toolchain_env, b2, "toolchain", ub)
         IN  /\ opt_sdk' = sdk
             /\ opt_toolchain' = toolchain
             /\ alternate_sdk_path' = IF sdk_path /\ ~invalid THEN sdk ELSE NULL
             /\ alternate_toolchain_path' =
                  IF toolchain_path /\ ~invalid THEN toolchain ELSE NULL
             /\ explicit_sdk_mode' = IF sdk_name THEN 1 ELSE 0
             /\ explicit_toolchain_mode' = IF toolchain_name THEN 1 ELSE 0
             /\ IF invalid
                  THEN /\ pc' = "exit" /\ exit_status' = 1
                       /\ current_sdk' = cs0 /\ current_toolchain' = ct0
                       /\ UNCHANGED <<finding_mode, tool_called, caller>>
                ELSE IF cs \in {EXIT, CRASH} \/ ct \in {EXIT, CRASH}
                  THEN /\ pc' = IF cs = CRASH \/ (cs # EXIT /\ ct = CRASH)
                                  THEN "crash" ELSE "exit"
                       /\ exit_status' = IF pc' = "exit" THEN 1 ELSE exit_status
                       /\ current_sdk' = cs0 /\ current_toolchain' = ct0
                       /\ UNCHANGED <<finding_mode, tool_called, caller>>
                  ELSE /\ pc' = "request_command"
                       /\ current_sdk' = cs /\ current_toolchain' = ct
                       /\ finding_mode' = find_f
                       /\ tool_called' = ToolName
                       /\ caller' = "xcrun_main"
                       /\ UNCHANGED exit_status
    /\ UNCHANGED <<synth, select, earlier, fs,
                   environ, argv, progname, developer_dir, logging_mode,
                   verbose_mode, target_set, search, envp, retval, stdout>>

(***************************************************************************)
(* request_command up to do_search: the search string.                     *)
(*   [kind, search, ios, macosx]: kind is "ok", "exit" or "crash"; ios and *)
(*   macosx are the two global flags as the descriptor parses left them.   *)
(***************************************************************************)
Built(kind, s, ios, macosx) ==
    [kind |-> kind, search |-> s, ios |-> ios, macosx |-> macosx]

\* as append_descriptor_toolchain, with the current toolchain in the place of
\* the toolchain that the descriptor names
append_current_toolchain(s, sdk_dir, ub) ==
    LET info == get_sdk_info(sdk_dir, ios_deployment_target_set,
                             macosx_deployment_target_set)
        tp == get_toolchain_path(current_toolchain)
    IN  IF info.exit \/ tp = EXIT THEN Built("exit", s, info.ios, info.macosx)
        ELSE Built("ok", s \o <<tp \o "/usr/bin">>, info.ios, info.macosx)

\* the toolchain named by the descriptor in sdk_dir appended to s
append_descriptor_toolchain(s, sdk_dir, ub) ==
    LET info == get_sdk_info(sdk_dir, ios_deployment_target_set,
                             macosx_deployment_target_set)
        toolch_name == strdup(info.config.toolchain, ub)
        tp == get_toolchain_path(toolch_name)
    IN  IF info.exit THEN Built("exit", s, info.ios, info.macosx)
        ELSE IF toolch_name = CRASH THEN Built("crash", s, info.ios, info.macosx)
        ELSE IF tp = EXIT THEN Built("exit", s, info.ios, info.macosx)
        ELSE Built("ok", s \o <<tp \o "/usr/bin">>, info.ios, info.macosx)

\* as append_sdk_and_toolchain, the toolchain first
append_toolchain_and_sdk(s, sdk_name, toolchain_name, ios, macosx) ==
    LET sp == get_sdk_path(sdk_name)
        tp == get_toolchain_path(toolchain_name)
    IN  IF sp = EXIT \/ tp = EXIT THEN Built("exit", s, ios, macosx)
        ELSE Built("ok", s \o <<tp \o "/usr/bin", ":", sp \o "/usr/bin">>, ios, macosx)

\* as append_sdk_and_toolchain, with the toolchain that the descriptor of the
\* SDK names in the place of the toolchain given
append_sdk_and_its_toolchain(s, sdk_name, toolchain_name, ios, macosx) ==
    LET sp == get_sdk_path(sdk_name)
    IN  IF sp = EXIT THEN Built("exit", s, ios, macosx)
        ELSE append_descriptor_toolchain(s \o <<sp \o "/usr/bin", ":">>, sp, JUNK)

\* "%s/usr/bin:%s/usr/bin" of an SDK name and a toolchain name appended to s
append_sdk_and_toolchain(s, sdk_name, toolchain_name, ios, macosx) ==
    LET sp == get_sdk_path(sdk_name)
        tp == get_toolchain_path(toolchain_name)
    IN  IF sp = EXIT \/ tp = EXIT THEN Built("exit", s, ios, macosx)
        ELSE Built("ok", s \o <<sp \o "/usr/bin", ":", tp \o "/usr/bin">>, ios, macosx)

\* what "%s" prints for a null pointer: "(null)", or the process dies
NullPrinted == {NULL, CRASH}

build_search_string(sdk_name, toolchain_name, ub, printed) ==
    LET ios == ios_deployment_target_set
        macosx == macosx_deployment_target_set
        s0 == <<printed \o "/usr/bin", ":">>
        s3 == s0 \o <<alternate_sdk_path \o "/usr/bin", ":">>
        s34 == IF alternate_sdk_path # NULL THEN s3 ELSE s0
        s4 == IF alternate_toolchain_path # NULL
                THEN s34 \o <<alternate_toolchain_path \o "/usr/bin">>
                ELSE s34
    IN  IF explicit_sdk_mode = 1
          THEN LET sp == get_sdk_path(sdk_name)
               IN  IF sp = EXIT THEN Built("exit", s0, ios, macosx)
                   ELSE append_descriptor_toolchain(s0 \o <<sp \o "/usr/bin", ":">>,
                                                    sp, ub)
        ELSE IF explicit_toolchain_mode = 1
          THEN LET tp == get_toolchain_path(toolchain_name)
               IN  IF tp = EXIT THEN Built("exit", s0, ios, macosx)
                   ELSE Built("ok", s0 \o <<tp \o "/usr/bin">>, ios, macosx)
        ELSE IF alternate_sdk_path # NULL /\ test_sdk_authenticity(alternate_sdk_path) = 1
          THEN append_descriptor_toolchain(s3, alternate_sdk_path, ub)
        ELSE IF explicit_sdk_mode = 0 /\ explicit_toolchain_mode = 0
                /\ alternate_toolchain_path = NULL /\ alternate_sdk_path = NULL
          THEN append_sdk_and_toolchain(s4, sdk_name, toolchain_name, ios, macosx)
        ELSE Built("ok", s4, ios, macosx)

request_command ==
    /\ pc = "request_command"
    /\ \E b1 \in Malloc, b2 \in Malloc, ub \in UB, np \in NullPrinted :
         LET cs == fall_back(current_sdk, getenv("SDKROOT"), b1, "sdk", ub)
             ct == fall_back(current_toolchain, getenv("TOOLCHAINS"), b2, "toolchain", ub)
             printed == IF developer_dir = NULL THEN np ELSE developer_dir
             built == build_search_string(cs, ct, ub, printed)
         IN  /\ IF cs \in {EXIT, CRASH} \/ ct \in {EXIT, CRASH} \/ printed = CRASH
                  THEN /\ pc' = IF cs = CRASH \/ (cs # EXIT /\ ct = CRASH)
                                     \/ (cs # EXIT /\ ct # EXIT)
                                  THEN "crash" ELSE "exit"
                       /\ exit_status' = IF pc' = "exit" THEN 1 ELSE exit_status
                       /\ UNCHANGED <<current_sdk, current_toolchain, target_set,
                                      search>>
                  ELSE /\ current_sdk' = cs /\ current_toolchain' = ct
                       /\ ios_deployment_target_set' = built.ios
                       /\ macosx_deployment_target_set' = built.macosx
                       /\ search_string' = built.search
                       /\ strtok_rest' = built.search
                       /\ UNCHANGED <<cmd, tested>>
                       /\ pc' = CASE built.kind = "ok" -> "search_command"
                                  [] built.kind = "exit" -> "exit"
                                  [] built.kind = "crash" -> "crash"
                       /\ exit_status' = IF built.kind = "exit" THEN 1 ELSE exit_status
    /\ UNCHANGED <<synth, select, earlier, fs,
                   environ, argv, progname, developer_dir, modes, alternate_sdk_path,
                   alternate_toolchain_path, opt_sdk, opt_toolchain, tool_called,
                   caller, envp, retval, stdout>>


(***************************************************************************)
(* search_command: strtok and one pass of the loop.                        *)
(***************************************************************************)
RECURSIVE skip_delimiters(_)
skip_delimiters(s) ==
    IF s # <<>> /\ Head(s) = ":" THEN skip_delimiters(Tail(s)) ELSE s

RECURSIVE token_length(_)
token_length(s) ==
    IF s = <<>> \/ Head(s) = ":" THEN 0 ELSE 1 + token_length(Tail(s))

\* [token, rest]: the next entry of s, NULL when there is none, and what is
\* left of s after the entry and the delimiter that ends it
strtok(s) ==
    LET t == skip_delimiters(s)
        n == token_length(t)
    IN  IF t = <<>> THEN [token |-> NULL, rest |-> <<>>]
        ELSE [token |-> Str(SubSeq(t, 1, n)), rest |-> SubSeq(t, n + 2, Len(t))]

\* as search_command, without the break at the first hit
search_command_no_break ==
    /\ pc = "search_command"
    /\ LET t == strtok(strtok_rest)
           absl_path == t.token
           path == absl_path \o "/" \o tool_called
       IN  IF absl_path = NULL
             THEN /\ cmd' = IF tested = <<>> THEN JUNK ELSE cmd
                  /\ pc' = "do_search"
                  /\ UNCHANGED <<strtok_rest, tested>>
             ELSE /\ cmd' = path
                  /\ tested' = Append(tested, path)
                  /\ strtok_rest' = t.rest
                  /\ pc' = "search_command"
    /\ UNCHANGED <<synth, select, earlier, fs,
                   environ, argv, progname, developer_dir, modes, target_set,
                   selection, tool_called, caller, search_string, result>>

search_command ==
    /\ pc = "search_command"
    /\ LET t == strtok(strtok_rest)
           absl_path == t.token
           path == absl_path \o "/" \o tool_called
       IN  IF absl_path = NULL
             THEN /\ cmd' = IF tested = <<>> THEN JUNK ELSE cmd
                  /\ pc' = "do_search"
                  /\ UNCHANGED <<strtok_rest, tested>>
             ELSE /\ cmd' = path
                  /\ tested' = Append(tested, path)
                  /\ strtok_rest' = t.rest
                  /\ pc' = IF access(path) # -1 THEN "do_search" ELSE "search_command"
    /\ UNCHANGED <<synth, select, earlier, fs,
                   environ, argv, progname, developer_dir, modes, target_set,
                   selection, tool_called, caller, search_string, result>>

\* do_search printing the cmd without the test of access()
do_search_unchecked ==
    /\ pc = "do_search"
    /\ IF cmd # NULL
         THEN IF finding_mode = 1
                THEN /\ stdout' = Append(stdout, cmd)
                     /\ retval' = 0
                     /\ pc' = "return"
                ELSE /\ pc' = "call_command"
                     /\ UNCHANGED <<retval, stdout>>
         ELSE /\ retval' = -1
              /\ pc' = "return"
              /\ UNCHANGED stdout
    /\ UNCHANGED <<synth, select, earlier, fs,
                   environ, argv, progname, developer_dir, modes, target_set,
                   selection, tool_called, caller, search, envp, exit_status>>

(***************************************************************************)
(* request_command from do_search on: what it does with the cmd that       *)
(* search_command returned.                                                *)
(***************************************************************************)
do_search ==
    /\ pc = "do_search"
    /\ IF cmd # NULL
         THEN IF finding_mode = 1
                THEN IF access(cmd) # -1
                       THEN /\ stdout' = Append(stdout, cmd)
                            /\ retval' = 0
                            /\ pc' = "return"
                       ELSE /\ retval' = -1
                            /\ pc' = "return"
                            /\ UNCHANGED stdout
                ELSE /\ pc' = "call_command"
                     /\ UNCHANGED <<retval, stdout>>
         ELSE /\ retval' = -1
              /\ pc' = "return"
              /\ UNCHANGED stdout
    /\ UNCHANGED <<synth, select, earlier, fs,
                   environ, argv, progname, developer_dir, modes, target_set,
                   selection, tool_called, caller, search, envp, exit_status>>

(***************************************************************************)
(* parse_target_triple.                                                    *)
(***************************************************************************)
Digits == {"0", "1", "2", "3", "4", "5", "6", "7", "8", "9"}

\* ch - '0'
DigitValue(ch) ==
    CASE ch = "0" -> 0 [] ch = "1" -> 1 [] ch = "2" -> 2 [] ch = "3" -> 3
      [] ch = "4" -> 4 [] ch = "5" -> 5 [] ch = "6" -> 6 [] ch = "7" -> 7
      [] ch = "8" -> 8 [] ch = "9" -> 9

\* the terminating NUL of a C string, which the do-while loop also visits
NUL == "\\0"

\* one pass of the do-while loop on character ch
scan_char(st, ch) ==
    IF ch \in Digits
      THEN CASE st.where = 1 -> [st EXCEPT !.xx = st.xx * 10 + DigitValue(ch)]
             [] st.where = 2 -> [st EXCEPT !.yy = st.yy * 10 + DigitValue(ch)]
             [] st.where = 3 -> [st EXCEPT !.zz = st.zz * 10 + DigitValue(ch)]
             [] OTHER -> st
      ELSE [st EXCEPT !.where = st.where + 1]

\* [where, xx, yy, zz] after the loop on the characters of ver and its NUL
scan_version(ver) ==
    LET chars == ver \o <<NUL>>
        f[i \in 0..Len(chars)] ==
            IF i = 0 THEN [where |-> 1, xx |-> 0, yy |-> 0, zz |-> 0]
            ELSE scan_char(f[i - 1], chars[i])
    IN  f[Len(chars)]

\* as kern_ver, the case 7 falling into the case 6
kern_ver_fallthrough(xx, yy) ==
    CASE xx = 10 -> yy + 4
      [] xx \in {9, 8} -> 14
      [] xx \in {7, 6} -> 13
      [] xx = 5 -> 11
      [] xx = 4 -> IF yy <= 2 THEN 10 ELSE 11
      [] xx = 3 -> 10
      [] OTHER -> 9

\* the switch on xx
kern_ver(xx, yy) ==
    CASE xx = 10 -> yy + 4
      [] xx \in {9, 8} -> 14
      [] xx = 7 -> 14
      [] xx = 6 -> 13
      [] xx = 5 -> 11
      [] xx = 4 -> IF yy <= 2 THEN 10 ELSE 11
      [] xx = 3 -> 10
      [] xx = 2 -> 9
      [] OTHER -> 9

\* what triple holds after the call: ver is the sequence of the characters of
\* the version, <<NULL>> for a null pointer
parse_target_triple(triple, ver, arch) ==
    IF ver = <<NULL>> THEN triple
    ELSE LET v == scan_version(ver)
         IN  arch \o "-apple-darwin" \o ToString(kern_ver(v.xx, v.yy))

(***************************************************************************)
(* call_command up to execve.                                              *)
(*   [kind, envp, target, ios, macosx]: kind is "ok", "exit" or "crash".   *)
(***************************************************************************)
Called(kind, e, target, ios, macosx) ==
    [kind |-> kind, envp |-> e, target |-> target, ios |-> ios, macosx |-> macosx]

\* envp[3] and deployment_target
deployment_target_of(e, ios_env, macosx_env, ub) ==
    LET ios == ios_deployment_target_set
        macosx == macosx_deployment_target_set
        sp == get_sdk_path(current_sdk)
        info == get_sdk_info(sp, ios, macosx)
        deployment_target == strdup(info.config.deployment_target, ub)
    IN  IF ios_env # NULL
          THEN Called("ok", [e EXCEPT ![4] = Env("IOS_DEPLOYMENT_TARGET", ios_env)],
                      ios_env, ios, macosx)
        ELSE IF macosx_env # NULL
          THEN Called("ok", [e EXCEPT ![4] = Env("MACOSX_DEPLOYMENT_TARGET", macosx_env)],
                      macosx_env, ios, macosx)
        ELSE IF sp = EXIT THEN Called("exit", e, NULL, ios, macosx)
        ELSE IF info.exit THEN Called("exit", e, NULL, info.ios, info.macosx)
        ELSE IF deployment_target = CRASH
          THEN Called("crash", e, NULL, info.ios, info.macosx)
        ELSE IF deployment_target # NULL
          THEN IF info.macosx = 1
                 THEN Called("ok",
                        [e EXCEPT ![4] = Env("MACOSX_DEPLOYMENT_TARGET", deployment_target)],
                        deployment_target, info.ios, info.macosx)
               ELSE IF info.ios = 1
                 THEN Called("ok",
                        [e EXCEPT ![4] = Env("IOS_DEPLOYMENT_TARGET", deployment_target)],
                        deployment_target, info.ios, info.macosx)
               ELSE Called("ok", e, deployment_target, info.ios, info.macosx)
        ELSE Called("exit", e, NULL, info.ios, info.macosx)

\* process_triple: envp[4], given what deployment_target_of returned
target_triple_of(c, triple_env, ub) ==
    LET sp == get_sdk_path(current_sdk)
        info == get_sdk_info(sp, c.ios, c.macosx)
        default_arch == strdup(info.config.default_arch, ub)
        triple == parse_target_triple(JUNK, Chars(c.target), default_arch)
    IN  IF triple_env # NULL
          THEN [c EXCEPT !.envp[5] = Env("TARGET_TRIPLE", triple_env)]
        ELSE IF sp = EXIT THEN [c EXCEPT !.kind = "exit"]
        ELSE IF info.exit
          THEN [c EXCEPT !.kind = "exit", !.ios = info.ios, !.macosx = info.macosx]
        ELSE IF default_arch = CRASH
          THEN [c EXCEPT !.kind = "crash", !.ios = info.ios, !.macosx = info.macosx]
        ELSE IF default_arch # NULL
          THEN [c EXCEPT !.envp[5] = Env("TARGET_TRIPLE", triple),
                         !.ios = info.ios, !.macosx = info.macosx]
        ELSE [c EXCEPT !.ios = info.ios, !.macosx = info.macosx]

call_command ==
    /\ pc = "call_command"
    /\ \E ub1 \in UB, ub2 \in UB :
         LET ios_env == getenv("IOS_DEPLOYMENT_TARGET")
             macosx_env == getenv("MACOSX_DEPLOYMENT_TARGET")
             triple_env == getenv("TARGET_TRIPLE")
             sp == get_sdk_path(current_sdk)
             tp == get_toolchain_path(current_toolchain)
             e == << Env("SDKROOT", sp),
                     Env("PATH", developer_dir \o "/usr/bin:" \o tp \o "/usr/bin"),
                     Env("LD_LIBRARY_PATH", tp \o "/usr/lib"),
                     Buffer, Buffer >>
             d == deployment_target_of(e, ios_env, macosx_env, ub1)
             c == IF d.kind = "ok" THEN target_triple_of(d, triple_env, ub2) ELSE d
             started == sp # EXIT /\ tp # EXIT
         IN  /\ IF ~started
                  THEN /\ pc' = "exit" /\ exit_status' = 1
                       /\ UNCHANGED <<envp, target_set>>
                  ELSE /\ envp' = c.envp
                       /\ ios_deployment_target_set' = c.ios
                       /\ macosx_deployment_target_set' = c.macosx
                       /\ pc' = CASE c.kind = "ok" -> "execve"
                                  [] c.kind = "exit" -> "exit"
                                  [] c.kind = "crash" -> "crash"
                       /\ exit_status' = IF c.kind = "exit" THEN 1 ELSE exit_status
    /\ UNCHANGED <<synth, select, earlier, fs,
                   environ, argv, progname, developer_dir, modes, selection,
                   tool_called, caller, search, retval, stdout>>

(***************************************************************************)
(* execve(cmd, argv, envp): the process image is replaced, or the call     *)
(* returns -1 and request_command returns -1.                              *)
(***************************************************************************)
execve ==
    /\ pc = "execve"
    /\ \E loads \in BOOLEAN :
         IF access(cmd) # -1 /\ loads
           THEN /\ pc' = "replaced"
                /\ UNCHANGED retval
           ELSE /\ pc' = "return"
                /\ retval' = -1
    /\ UNCHANGED <<synth, select, earlier, fs,
                   environ, argv, progname, developer_dir, modes, target_set,
                   selection, tool_called, caller, search, envp, exit_status, stdout>>

(***************************************************************************)
(* The return of request_command to xcrun_main or to main, and the exit    *)
(* status of the process.                                                  *)
(***************************************************************************)
return_to_caller ==
    /\ pc = "return"
    /\ pc' = "exit"
    /\ exit_status' =
         IF retval # -1
           THEN IF caller = "xcrun_main" /\ finding_mode = 1 THEN 0 ELSE 255
           ELSE 1
    /\ UNCHANGED <<synth, select, earlier, fs,
                   environ, argv, progname, developer_dir, modes, target_set,
                   selection, tool_called, caller, search, envp, retval, stdout>>

Next ==
    \/ main
    \/ xcrun_main
    \/ request_command
    \/ search_command
    \/ do_search
    \/ call_command
    \/ execve
    \/ return_to_caller

Spec == Init /\ [][Next]_vars

(***************************************************************************)
(* parse_target_triple alone, on the versions written from at most         *)
(* MaxComponents numbers.                                                  *)
(***************************************************************************)
MaxComponents == 4
MaxMajor == 11
MaxMinor == 10
MaxLater == 1
Archs == {"x86_64", "armv7"}
Separators == {".", "-"}

RECURSIVE Decimal(_)
\* the decimal digits of n
Decimal(n) ==
    IF n < 10 THEN <<ToString(n)>> ELSE Decimal(n \div 10) \o <<ToString(n % 10)>>

RECURSIVE Written(_, _)
\* the characters of the version that has these components
Written(components, separator) ==
    IF Len(components) = 1 THEN Decimal(components[1])
    ELSE Decimal(components[1]) \o <<separator>> \o Written(Tail(components), separator)

\* the components: a major, a minor, and the later ones
Components ==
    UNION {[1..n -> 0..MaxMajor] : n \in 1..MaxComponents}
ComponentsInBounds(c) ==
    /\ Len(c) >= 2 => c[2] <= MaxMinor
    /\ \A i \in 3..Len(c) : c[i] <= MaxLater

InitTriple ==
    /\ fs_dirs = {} /\ fs_ini = [p \in {} |-> <<>>] /\ fs_exec = {}
    /\ fs_cache = NoCache
    /\ environ = EnvUnset
    /\ argv = [prog |-> NULL, sdk |-> NULL, toolchain |-> NULL, find |-> 0]
    /\ Idle
    /\ pc = "parse_target_triple"
    /\ \/ /\ given_components \in {c \in Components : ComponentsInBounds(c)}
          /\ given_separator \in Separators
          /\ given_ver = Written(given_components, given_separator)
       \/ /\ given_components = <<>>
          /\ given_separator = NULL
          /\ given_ver = <<NULL>>
    /\ given_arch \in Archs
    /\ target_triple = JUNK

\* parse_target_triple(target_triple, given_ver, given_arch)
call_parse_target_triple ==
    /\ pc = "parse_target_triple"
    /\ target_triple' = parse_target_triple(target_triple, given_ver, given_arch)
    /\ pc' = "parsed"
    /\ UNCHANGED <<given_components, given_separator, given_ver, given_arch, select, earlier, fs,
                   environ,
                   argv, progname, developer_dir, modes, target_set, selection,
                   tool_called, caller, search, result>>

NextTriple == call_parse_target_triple

SpecTriple == InitTriple /\ [][NextTriple]_vars


(***************************************************************************)
(* xcode-select (src/xcode-select/xcode-select.c).  A run of xcode-select  *)
(* is one step; the runs of xcode-select come before the run of xcrun, in  *)
(* the same environment and on the same file system.                       *)
(***************************************************************************)
MaxSelect == 2

\* the paths given to -switch
SwitchPaths == {DevDir, AltToolchainPath, "/nodir"}

\* whether the strcat onto the value of HOME in the environment block and
\* the write one byte past the malloc'd buffer leave the process alive
Overflow == {"kept", CRASH}

select_validate_directory_path(dir) == IF dir \in fs_dirs THEN 0 ELSE 1

\* darwincfg_path after strcat(darwincfg_path, strcat(pathtocfg, DARWINSDK_CFG)),
\* pathtocfg being HOME with "/" appended, buffer what malloc returned
darwincfg_path(buffer) == Str(buffer \o <<getenv("HOME"), "/", DARWINSDK_CFG>>)

\* the cache files after fopen(file, "w+"), fwrite(path) and fclose
fwrite(cache, file, path) ==
    [q \in DOMAIN cache \cup {file} |-> IF q = file THEN path ELSE cache[q]]

\* [retval, cache]: what set_developer_path returns and the cache files after
\* it; opened says whether fopen gave a stream
select_set_developer_path(path, buffer, opened) ==
    IF getenv("HOME") = NULL THEN [retval |-> -1, cache |-> fs_cache]
    ELSE IF opened
      THEN [retval |-> 0, cache |-> fwrite(fs_cache, darwincfg_path(buffer), path)]
    ELSE [retval |-> -1, cache |-> fs_cache]

\* value is the address of the local devpath: what is found there after the
\* return is outcome
select_get_developer_path(buffer, outcome) ==
    LET value == getenv("DEVELOPER_DIR")
        pathtocfg == getenv("HOME")
    IN  IF value # NULL THEN value
        ELSE IF pathtocfg = NULL THEN NULL
        ELSE IF outcome = CRASH THEN CRASH
        ELSE IF darwincfg_path(buffer) \in DOMAIN fs_cache
          THEN IF outcome = "kept" THEN fs_cache[darwincfg_path(buffer)] ELSE outcome
        ELSE NULL

\* xcode-select -switch path
xcode_select_switch ==
    /\ pc = "main" /\ select_runs < MaxSelect
    /\ select_runs' = select_runs + 1
    /\ \E path \in SwitchPaths, buffer \in Malloc, opened \in BOOLEAN,
          overflow \in Overflow :
         LET set == select_set_developer_path(path, buffer, opened)
         IN  /\ select_argv' = [switch |-> path, print |-> 0]
             /\ select_path' = path
             /\ IF select_validate_directory_path(path) = 0
                  THEN IF getenv("HOME") # NULL /\ overflow = CRASH
                         THEN /\ select_pc' = "crash"
                              /\ UNCHANGED <<select_status, fs_cache, switched>>
                         ELSE /\ select_pc' = "exit"
                              /\ select_status' = set.retval
                              /\ fs_cache' = set.cache
                              /\ switched' = IF set.retval = 0
                                               THEN Append(switched, path)
                                               ELSE switched
                  ELSE /\ select_pc' = "exit"
                       /\ select_status' = -1
                       /\ UNCHANGED <<fs_cache, switched>>
    /\ UNCHANGED <<synth, earlier, select_stdout, fs_dirs, fs_ini, fs_exec, environ, argv,
                   progname, developer_dir, modes, target_set, selection, tool_called,
                   caller, search, result, pc>>

\* xcode-select -print-path
xcode_select_print_path ==
    /\ pc = "main" /\ select_runs < MaxSelect
    /\ select_runs' = select_runs + 1
    /\ \E buffer \in Malloc, outcome \in Dangling, np \in NullPrinted :
         LET path == select_get_developer_path(buffer, outcome)
             printed == IF path = NULL THEN np ELSE path
         IN  /\ select_argv' = [switch |-> NULL, print |-> 1]
             /\ IF printed = CRASH
                  THEN /\ select_pc' = "crash"
                       /\ UNCHANGED <<select_path, select_status, select_stdout>>
                  ELSE /\ select_pc' = "exit"
                       /\ select_path' = path
                       /\ select_stdout' = Append(select_stdout, printed)
                       /\ select_status' = 0
    /\ UNCHANGED <<synth, earlier, switched, fs, environ, argv, progname, developer_dir, modes,
                   target_set, selection, tool_called, caller, search, result, pc>>

\* the runs of xcrun that follow the runs of xcode-select
SelectRuns ==
    {run \in DeveloperRuns :
       run.prog = "xcrun" /\ run.sdk = NULL /\ run.toolchain = NULL}

InitSelect == \E run \in SelectRuns : Start(run)

NextSelect ==
    \/ xcode_select_switch
    \/ xcode_select_print_path
    \/ Next

SpecSelect == InitSelect /\ [][NextSelect]_vars


(***************************************************************************)
(* xcrun run again: when a run is over, a new process runs xcrun on the    *)
(* same command line, in the same environment, on the same file system.    *)
(***************************************************************************)
MaxRuns == 2

\* what a run leaves to be seen: how it ended, the search list, the
\* environment built for the tool, the output
Outcome ==
    [pc |-> pc, exit_status |-> exit_status, search_string |-> search_string,
     envp |-> envp, stdout |-> stdout]

run_again ==
    /\ pc \in {"exit", "crash", "replaced"}
    /\ run_no < MaxRuns
    /\ run_no' = run_no + 1
    /\ first' = IF run_no = 1 THEN <<Outcome>> ELSE first
    /\ progname' = NULL /\ developer_dir' = NULL
    /\ logging_mode' = 0 /\ verbose_mode' = 0 /\ finding_mode' = 0
    /\ explicit_sdk_mode' = 0 /\ explicit_toolchain_mode' = 0
    /\ ios_deployment_target_set' = 0 /\ macosx_deployment_target_set' = 0
    /\ current_sdk' = NULL /\ current_toolchain' = NULL
    /\ alternate_sdk_path' = NULL /\ alternate_toolchain_path' = NULL
    /\ opt_sdk' = NULL /\ opt_toolchain' = NULL
    /\ tool_called' = NULL /\ caller' = NULL
    /\ search_string' = <<>> /\ strtok_rest' = <<>> /\ cmd' = NULL /\ tested' = <<>>
    /\ envp' = <<>> /\ retval' = 0 /\ exit_status' = -1 /\ stdout' = <<>>
    /\ pc' = "main"
    /\ UNCHANGED <<synth, select, fs, environ, argv>>

\* the runs that are run twice
TwiceRuns == NameRuns \cup MissingRuns

InitTwice == \E run \in TwiceRuns : Start(run)

NextTwice ==
    \/ run_again
    \/ Next

SpecTwice == InitTwice /\ [][NextTwice]_vars


(***************************************************************************)
(* The vocabulary of the properties.                                       *)
(***************************************************************************)
RECURSIVE Entries(_)
\* the search list: the entries of a search string, in order
Entries(s) ==
    LET t == strtok(s)
    IN  IF t.token = NULL THEN <<>> ELSE <<t.token>> \o Entries(t.rest)

Range(f) == {f[i] : i \in DOMAIN f}

\* request_command has built the whole search list
SearchListBuilt ==
    \/ pc \in {"search_command", "do_search", "call_command", "execve", "return",
               "replaced"}
    \/ pc \in {"exit", "crash"} /\ tested # <<>>

\* search_command has returned
SearchDone ==
    \/ pc \in {"do_search", "call_command", "execve", "return", "replaced"}
    \/ pc \in {"exit", "crash"} /\ tested # <<>>

\* the value of a key of a descriptor file, NULL when the file has no such key
IniValue(lines, section, name) ==
    LET at == {i \in 1..Len(lines) :
                 lines[i].section = section /\ lines[i].name = name}
    IN  IF at = {} THEN NULL
        ELSE lines[CHOOSE i \in at : \A j \in at : j <= i].value

\* the lines of a descriptor file, none when there is no such file
Descriptor(path) == IF path \in DOMAIN fs_ini THEN fs_ini[path] ELSE <<>>

\* the directories as the specification writes them
Root == developer_dir
SdkOf(name) == Root \o "/SDKs/" \o name \o ".sdk"
ToolchainOf(name) == Root \o "/Toolchains/" \o name \o ".toolchain"
Bin(dir) == dir \o "/usr/bin"
\* the toolchain that the descriptor in an SDK directory names
DescriptorToolchain(sdk_dir) ==
    ToolchainOf(IniValue(Descriptor(sdk_dir \o "/info.ini"), "SDK", "toolchain"))
DefaultSdk == SdkOf(IniValue(Descriptor(XCRUN_DEFAULT_CFG), "SDK", "name"))
DefaultToolchain == ToolchainOf(IniValue(Descriptor(XCRUN_DEFAULT_CFG), "TOOLCHAIN", "name"))

\* what the command line gives
SdkNameFlag == argv.sdk # NULL /\ ~IsAbsolute(argv.sdk)
SdkPathFlag == argv.sdk # NULL /\ IsAbsolute(argv.sdk)
ToolchainNameFlag == argv.toolchain # NULL /\ ~IsAbsolute(argv.toolchain)
ToolchainPathFlag == argv.toolchain # NULL /\ IsAbsolute(argv.toolchain)

(***************************************************************************)
(* C1.  With no --sdk and no --toolchain flag and with SDKROOT and         *)
(* TOOLCHAINS unset, the search list is exactly <root>/usr/bin, then the   *)
(* usr/bin of the SDK that the default configuration names, then the       *)
(* usr/bin of the toolchain that it names.                                 *)
(***************************************************************************)
NothingSelected ==
    /\ argv.sdk = NULL /\ argv.toolchain = NULL
    /\ environ["SDKROOT"] = NULL /\ environ["TOOLCHAINS"] = NULL

C1_DefaultSearchList ==
    (SearchListBuilt /\ NothingSelected) =>
        Entries(search_string) = <<Bin(Root), Bin(DefaultSdk), Bin(DefaultToolchain)>>

C1_Witness ==
    /\ pc = "do_search" /\ NothingSelected
    /\ Entries(search_string) =
         << "/opt/dev/usr/bin", "/opt/dev/SDKs/MacOSX10.9.sdk/usr/bin",
            "/opt/dev/Toolchains/XcodeDefault.toolchain/usr/bin" >>

(***************************************************************************)
(* C2.  With an SDK name pinned by --sdk, the search list is               *)
(* <root>/usr/bin, then the usr/bin of the pinned SDK, then the usr/bin of *)
(* the toolchain T that the descriptor of that SDK names; the usr/bin of   *)
(* the default toolchain, of the --toolchain toolchain and of the          *)
(* TOOLCHAINS toolchain are not in it unless that toolchain is T.          *)
(***************************************************************************)
\* the usr/bin of the toolchains that the run names outside the descriptor
OtherToolchainBins ==
    {Bin(ToolchainOf(current_toolchain))}
      \cup {Bin(DefaultToolchain)}
      \cup (IF ToolchainPathFlag THEN {Bin(argv.toolchain)} ELSE {})

C2_PinnedSdkSearchList ==
    (SearchListBuilt /\ SdkNameFlag
       /\ IniValue(Descriptor(SdkOf(current_sdk) \o "/info.ini"), "SDK", "toolchain") # NULL) =>
        LET sdk == SdkOf(current_sdk)
            list == Entries(search_string)
        IN  /\ list = <<Bin(Root), Bin(sdk), Bin(DescriptorToolchain(sdk))>>
            /\ \A d \in OtherToolchainBins :
                 d # Bin(DescriptorToolchain(sdk)) => d \notin Range(list)

C2_Witness ==
    /\ pc = "do_search" /\ argv.sdk = "iPhoneOS" /\ argv.toolchain = "XcodeDefault"
    /\ Entries(search_string) =
         << "/opt/dev/usr/bin", "/opt/dev/SDKs/iPhoneOS.sdk/usr/bin",
            "/opt/dev/Toolchains/iPhone.toolchain/usr/bin" >>

(***************************************************************************)
(* C3.  The rules of the search list.                                      *)
(***************************************************************************)
Rule1 == LET sdk == SdkOf(current_sdk) IN <<Bin(sdk), Bin(DescriptorToolchain(sdk))>>
Rule2 == <<Bin(ToolchainOf(current_toolchain))>>
Rule3 == IF (argv.sdk \o "/info.ini") \in DOMAIN fs_ini
           THEN <<Bin(argv.sdk), Bin(DescriptorToolchain(argv.sdk))>>
           ELSE <<Bin(argv.sdk)>>
Rule4 == <<Bin(argv.toolchain)>>
Rule5 == <<Bin(SdkOf(current_sdk)), Bin(ToolchainOf(current_toolchain))>>

\* the entries of the first rule whose condition holds, and of no other
FirstRule ==
    IF SdkNameFlag THEN Rule1
    ELSE IF ToolchainNameFlag THEN Rule2
    ELSE IF SdkPathFlag THEN Rule3
    ELSE IF ToolchainPathFlag THEN Rule4
    ELSE Rule5

\* C3 as claimed: the search list is <root>/usr/bin and then the entries of
\* exactly one rule, the first one whose condition holds
C3_OneRuleOnly ==
    SearchListBuilt => Entries(search_string) = <<Bin(Root)>> \o FirstRule

\* an absolute SDK path without info.ini is followed by the absolute toolchain
\* path when one is given
FirstRuleAmended ==
    IF ~SdkNameFlag /\ ~ToolchainNameFlag /\ SdkPathFlag /\ ToolchainPathFlag
       /\ (argv.sdk \o "/info.ini") \notin DOMAIN fs_ini
      THEN Rule3 \o Rule4
      ELSE FirstRule

\* C3 as amended: the search list is <root>/usr/bin and then the entries of
\* the first rule whose condition holds, except that an absolute SDK path
\* without info.ini given with an absolute toolchain path yields the entry of
\* rule 3 followed by the entry of rule 4
C3_RulesAmended ==
    SearchListBuilt => Entries(search_string) = <<Bin(Root)>> \o FirstRuleAmended

C3_Witness ==
    /\ pc = "do_search"
    /\ argv.sdk = AltSdkPath /\ argv.toolchain = AltToolchainPath
    /\ Entries(search_string) =
         <<"/opt/dev/usr/bin", "/alt/My.sdk/usr/bin", "/alt/My.toolchain/usr/bin">>

(***************************************************************************)
(* C4.  SDKROOT without a --sdk flag.                                      *)
(***************************************************************************)
\* C4 as claimed: with no --sdk flag and SDKROOT naming an SDK, the search
\* list is <root>/usr/bin, the usr/bin of that SDK and the usr/bin of the
\* toolchain that the descriptor of that SDK names
C4_SdkrootPins ==
    (SearchListBuilt /\ argv.sdk = NULL /\ environ["SDKROOT"] # NULL) =>
        LET sdk == SdkOf(current_sdk)
        IN  Entries(search_string) = <<Bin(Root), Bin(sdk), Bin(DescriptorToolchain(sdk))>>

\* C4 as amended: with no --sdk and no --toolchain flag and SDKROOT naming
\* an SDK, the search list is <root>/usr/bin, the usr/bin of that SDK and the
\* usr/bin of the toolchain that TOOLCHAINS names or, with TOOLCHAINS unset,
\* that the default configuration names
C4_SdkrootIsDefault ==
    (SearchListBuilt /\ argv.sdk = NULL /\ argv.toolchain = NULL
       /\ environ["SDKROOT"] # NULL) =>
        LET sdk == SdkOf(current_sdk)
            toolchain == IF environ["TOOLCHAINS"] # NULL
                           THEN ToolchainOf(current_toolchain)
                           ELSE DefaultToolchain
        IN  Entries(search_string) = <<Bin(Root), Bin(sdk), Bin(toolchain)>>

C4_Witness ==
    /\ pc = "do_search" /\ argv.sdk = NULL /\ argv.toolchain = NULL
    /\ environ["SDKROOT"] = "/Developer/SDKs/iPhoneOS.sdk"
    /\ environ["TOOLCHAINS"] = NULL
    /\ IniValue(Descriptor("/opt/dev/SDKs/iPhoneOS.sdk/info.ini"), "SDK", "toolchain")
         = "iPhone"
    /\ Entries(search_string) =
         << "/opt/dev/usr/bin", "/opt/dev/SDKs/iPhoneOS.sdk/usr/bin",
            "/opt/dev/Toolchains/XcodeDefault.toolchain/usr/bin" >>

(***************************************************************************)
(* C5.  search_command tests the directories of the search list in order,  *)
(* stops at the first one that holds an executable of the name and returns *)
(* the path in that directory, also when a later one holds an executable   *)
(* of the name.                                                            *)
(***************************************************************************)
\* the path tested in the i-th directory of the search list
Candidate(i) == Entries(search_string)[i] \o "/" \o tool_called
\* the places in the search list of the directories holding the tool
Hits == {i \in 1..Len(Entries(search_string)) : Candidate(i) \in fs_exec}
FirstHit == CHOOSE i \in Hits : \A j \in Hits : i <= j

C5_FirstMatchWins ==
    /\ tested # <<>> =>
         /\ Len(tested) <= Len(Entries(search_string))
         /\ \A i \in 1..Len(tested) : tested[i] = Candidate(i)
         /\ Hits # {} => Len(tested) <= FirstHit
    /\ (SearchDone /\ Hits # {}) =>
         /\ cmd = Candidate(FirstHit)
         /\ Len(tested) = FirstHit

C5_Witness ==
    /\ pc = "do_search" /\ Cardinality(Hits) = 2
    /\ FirstHit = 2 /\ Len(Entries(search_string)) = 3
    /\ cmd = Candidate(2) /\ tested = <<Candidate(1), Candidate(2)>>

(***************************************************************************)
(* C6.  When no directory of the search list holds an executable of the    *)
(* name, search_command returns NULL and request_command does not call     *)
(* call_command: no environment is built and execve is not reached.        *)
(***************************************************************************)
C6_NotFoundIsNotCalled ==
    (SearchDone /\ Hits = {}) =>
        /\ cmd = NULL
        /\ pc \notin {"call_command", "execve", "replaced"}
        /\ envp = <<>>

(***************************************************************************)
(* C7.  For every version written as M, M.m, M.m.p or M.m.p.q with decimal *)
(* components and a non-digit separator, and every architecture A,         *)
(* parse_target_triple writes exactly "A-apple-darwinK", K depending only  *)
(* on M and m: M=10 -> m+4; M in {7,8,9} -> 14; M=6 -> 13; M=5 -> 11;      *)
(* M=4 -> 10 if m<=2 else 11; M=3 -> 10; M=2 -> 9; any other M -> 9.       *)
(***************************************************************************)
\* the table of the kernel versions, m being 0 for a version with no minor
KernelVersion(M, m) ==
    IF M = 10 THEN m + 4
    ELSE IF M \in {7, 8, 9} THEN 14
    ELSE IF M = 6 THEN 13
    ELSE IF M = 5 THEN 11
    ELSE IF M = 4 THEN (IF m <= 2 THEN 10 ELSE 11)
    ELSE IF M = 3 THEN 10
    ELSE 9

C7_TripleTable ==
    (pc = "parsed" /\ given_ver # <<NULL>>) =>
        LET M == given_components[1]
            m == IF Len(given_components) >= 2 THEN given_components[2] ELSE 0
        IN  target_triple = given_arch \o "-apple-darwin" \o ToString(KernelVersion(M, m))

C7_Witness ==
    /\ pc = "parsed"
    /\ given_ver = <<"7", "-", "1", "-", "1", "-", "1">>
    /\ given_arch = "armv7"
    /\ target_triple = "armv7-apple-darwin14"

(***************************************************************************)
(* The vocabulary of the properties of call_command.                       *)
(***************************************************************************)
\* the descriptor that call_command reads
SelectedDescriptor == Descriptor(SdkOf(current_sdk) \o "/info.ini")
TargetKeys == {"ios_deployment_target", "macosx_deployment_target"}
TargetNames == {"IOS_DEPLOYMENT_TARGET", "MACOSX_DEPLOYMENT_TARGET"}
\* the places of the deployment-target keys in a descriptor
TargetLines(lines) ==
    {i \in 1..Len(lines) : lines[i].section = "SDK" /\ lines[i].name \in TargetKeys}
\* the last deployment-target key of a descriptor that has one
LastTarget(lines) ==
    lines[CHOOSE i \in TargetLines(lines) : \A j \in TargetLines(lines) : j <= i]
\* call_command has built its environment
EnvironmentBuilt == envp # <<>>
\* the process replacement is reached
Replacing == pc \in {"execve", "replaced"}
NoTargetInEnvironment ==
    environ["IOS_DEPLOYMENT_TARGET"] = NULL /\ environ["MACOSX_DEPLOYMENT_TARGET"] = NULL

(***************************************************************************)
(* C8.  In every run that reaches the process replacement, the environment *)
(* handed to the tool holds exactly one deployment-target variable,        *)
(* IOS_DEPLOYMENT_TARGET or MACOSX_DEPLOYMENT_TARGET: with the caller's    *)
(* value when the caller's environment sets it, and otherwise named after  *)
(* the deployment-target key of the descriptor of the selected SDK, the    *)
(* later key when it has both, with the value of that key.                 *)
(***************************************************************************)
C8_ExactlyOneTarget ==
    Replacing =>
        LET targets == {i \in 1..Len(envp) : envp[i].name \in TargetNames}
            ios_env == environ["IOS_DEPLOYMENT_TARGET"]
            macosx_env == environ["MACOSX_DEPLOYMENT_TARGET"]
        IN  /\ Cardinality(targets) = 1
            /\ \A i \in targets :
                 IF ios_env # NULL
                   THEN envp[i] = Env("IOS_DEPLOYMENT_TARGET", ios_env)
                 ELSE IF macosx_env # NULL
                   THEN envp[i] = Env("MACOSX_DEPLOYMENT_TARGET", macosx_env)
                 ELSE /\ TargetLines(SelectedDescriptor) # {}
                      /\ LET key == LastTarget(SelectedDescriptor)
                         IN  envp[i] =
                               Env(IF key.name = "ios_deployment_target"
                                     THEN "IOS_DEPLOYMENT_TARGET"
                                     ELSE "MACOSX_DEPLOYMENT_TARGET", key.value)

(***************************************************************************)
(* C9.  When TARGET_TRIPLE is not set in the caller's environment and the  *)
(* descriptor of the selected SDK has no default_arch, call_command only   *)
(* warns: it goes on to the process replacement, and the environment it    *)
(* passes holds no TARGET_TRIPLE entry and no unwritten entry in its       *)
(* place.                                                                  *)
(***************************************************************************)
\* the deployment target is found, and only the default_arch is missing
OnlyArchMissing ==
    /\ environ["TARGET_TRIPLE"] = NULL
    /\ (SdkOf(current_sdk) \o "/info.ini") \in DOMAIN fs_ini
    /\ IniValue(SelectedDescriptor, "SDK", "default_arch") = NULL
    /\ ~NoTargetInEnvironment \/ TargetLines(SelectedDescriptor) # {}

C9_WarnsAndOmitsTriple ==
    (EnvironmentBuilt /\ OnlyArchMissing) =>
        /\ pc \in {"execve", "replaced", "return", "exit"}
        /\ pc = "exit" => retval = -1
        /\ \A i \in 1..Len(envp) : envp[i] # Buffer /\ envp[i].name # "TARGET_TRIPLE"

(***************************************************************************)
(* C10.  When the caller's environment sets neither IOS_DEPLOYMENT_TARGET  *)
(* nor MACOSX_DEPLOYMENT_TARGET and the descriptor of the selected SDK has *)
(* neither deployment-target key, call_command reports an error and the    *)
(* process exits nonzero without attempting the process replacement.       *)
(***************************************************************************)
NoTargetAnywhere ==
    /\ NoTargetInEnvironment
    /\ (SdkOf(current_sdk) \o "/info.ini") \in DOMAIN fs_ini
    /\ TargetLines(SelectedDescriptor) = {}

C10_MissingTargetIsFatal ==
    (EnvironmentBuilt /\ NoTargetAnywhere) =>
        /\ pc = "exit"
        /\ exit_status = 1
        /\ retval # -1

(***************************************************************************)
(* C11.  If DEVELOPER_DIR is unset and the cache file of the developer     *)
(* root cannot be read (HOME unset, or no file), every run that requests a *)
(* tool, in find mode or run mode and under every selection, ends in a     *)
(* fatal nonzero exit: it prints no path, does not exit 0 and does not     *)
(* replace the process image.                                              *)
(***************************************************************************)
NoDeveloperRoot ==
    /\ environ["DEVELOPER_DIR"] = NULL
    /\ \/ environ["HOME"] = NULL
       \/ (environ["HOME"] \o "/" \o SDK_CFG) \notin DOMAIN fs_cache

C11_NoRootIsFatal ==
    NoDeveloperRoot =>
        /\ stdout = <<>>
        /\ exit_status # 0
        /\ pc # "replaced"

(***************************************************************************)
(* C12.  With a developer directory resolved, when resolution needs a      *)
(* named SDK or a named toolchain (the SDK of --sdk and the toolchain its  *)
(* descriptor names, the toolchain of --toolchain, the SDK and the         *)
(* toolchain of the fallback, the toolchain that the descriptor of an SDK  *)
(* given by path names) and the directory <root>/SDKs/<name>.sdk or        *)
(* <root>/Toolchains/<name>.toolchain is not there, the run exits with     *)
(* status 1 before any directory is searched: no path is printed and the   *)
(* process is not replaced, even with the tool in <root>/usr/bin.          *)
(***************************************************************************)
\* the toolchain directory that the descriptor in an SDK directory names, if
\* it names one
NamedBy(sdk_dir) ==
    IF IniValue(Descriptor(sdk_dir \o "/info.ini"), "SDK", "toolchain") # NULL
      THEN {DescriptorToolchain(sdk_dir)} ELSE {}

\* the directories of named SDKs and toolchains that resolution needs
NeededDirectories ==
    IF SdkNameFlag THEN {SdkOf(current_sdk)} \cup NamedBy(SdkOf(current_sdk))
    ELSE IF ToolchainNameFlag THEN {ToolchainOf(current_toolchain)}
    ELSE IF SdkPathFlag THEN NamedBy(argv.sdk)
    ELSE IF ToolchainPathFlag THEN {}
    ELSE {SdkOf(current_sdk), ToolchainOf(current_toolchain)}

\* resolution has come to the directories it needs: there is a developer
\* directory and request_command has run
ResolutionDone ==
    /\ developer_dir # NULL
    /\ current_sdk # NULL /\ current_toolchain # NULL
    /\ pc \notin {"main", "xcrun_main", "request_command"}

C12_MissingDirectoryIsFatal ==
    (ResolutionDone /\ ~(NeededDirectories \subseteq fs_dirs)) =>
        /\ pc = "exit" /\ exit_status = 1
        /\ tested = <<>> /\ stdout = <<>>

C12_Witness ==
    /\ pc = "exit" /\ exit_status = 1 /\ tested = <<>>
    /\ ResolutionDone
    /\ SdkNameFlag
    /\ SdkOf(current_sdk) \in fs_dirs
    /\ NamedBy(SdkOf(current_sdk)) # {}
    /\ ~(NamedBy(SdkOf(current_sdk)) \subseteq fs_dirs)
    /\ (Bin(Root) \o "/" \o ToolName) \in fs_exec

(***************************************************************************)
(* C13.  In find mode the run never builds a child environment and never   *)
(* reaches the process replacement.  When it ends, if the search located   *)
(* the tool it has printed the path found, and nothing else, and the exit  *)
(* status is 0; if not, it has printed no path and the exit status is not  *)
(* 0.                                                                      *)
(***************************************************************************)
\* the run is over
Ended == pc \in {"exit", "crash", "replaced"}
\* the search has run and a directory of the search list holds the tool
Located == tested # <<>> /\ Hits # {}

C13_FindMode ==
    finding_mode = 1 =>
        /\ ~EnvironmentBuilt /\ ~Replacing /\ pc # "call_command"
        /\ (Ended /\ Located) =>
              /\ pc = "exit" /\ exit_status = 0
              /\ stdout = <<Candidate(FirstHit)>>
        /\ (Ended /\ ~Located) => (exit_status # 0 /\ stdout = <<>>)

C13_Witness ==
    /\ finding_mode = 1 /\ pc = "exit" /\ Located
    /\ Len(tested) > 1
    /\ stdout = <<tested[Len(tested)]>> /\ exit_status = 0

\* a run in find mode that ends without having located the tool
C13_NotLocated ==
    /\ finding_mode = 1 /\ pc = "exit" /\ tested # <<>> /\ Hits = {}

(***************************************************************************)
(* C14.  With DEVELOPER_DIR unset, get_developer_path of xcode-select      *)
(* (xcode-select -print-path) after set_developer_path(P) has succeeded    *)
(* (xcode-select -switch P) returns exactly P: after several -switch it    *)
(* returns the path written last.                                          *)
(***************************************************************************)
\* the path that the last successful -switch wrote
LastSwitched == switched[Len(switched)]

C14_RoundTrip ==
    (/\ switched # <<>>
     /\ environ["DEVELOPER_DIR"] = NULL
     /\ select_argv.print = 1 /\ select_pc = "exit") =>
        select_path = LastSwitched

(***************************************************************************)
(* C15.  After xcode-select -switch P has succeeded, a run of xcrun with   *)
(* the same HOME and with DEVELOPER_DIR unset has P as its developer       *)
(* directory.                                                              *)
(***************************************************************************)
C15_SwitchReachesXcrun ==
    (/\ switched # <<>>
     /\ environ["DEVELOPER_DIR"] = NULL
     /\ pc \notin {"main", "crash"}) =>
        developer_dir = LastSwitched

(***************************************************************************)
(* C16.  A second run of xcrun on the same command line, in the same       *)
(* environment and on the same file system ends with the search list and   *)
(* the child environment of the first run.                                 *)
(***************************************************************************)
C16_Idempotent ==
    (run_no = 2 /\ Ended) =>
        /\ search_string = first[1].search_string
        /\ envp = first[1].envp

(***************************************************************************)
(* C17.  With DEVELOPER_DIR=/opt/dev, the SDK MacOSX10.9 selected by name, *)
(* by --sdk or as the SDK of the default configuration, its descriptor     *)
(* giving toolchain XcodeDefault, default_arch x86_64 and                  *)
(* macosx_deployment_target 10.9, no target variable in the caller's       *)
(* environment and clang executable in the usr/bin of the toolchain        *)
(* XcodeDefault only, a run-mode request for clang comes to the process    *)
(* replacement with that binary, MACOSX_DEPLOYMENT_TARGET=10.9 and         *)
(* TARGET_TRIPLE=x86_64-apple-darwin13.                                    *)
(***************************************************************************)
Scenario ==
    /\ environ["DEVELOPER_DIR"] = "/opt/dev"
    /\ argv.prog = "xcrun" /\ argv.find = 0 /\ argv.toolchain = NULL
    /\ \/ argv.sdk = "MacOSX10.9"
       \/ /\ argv.sdk = NULL /\ environ["SDKROOT"] = NULL
          /\ IniValue(Descriptor(XCRUN_DEFAULT_CFG), "SDK", "name") = "MacOSX10.9"
    /\ environ["TOOLCHAINS"] = NULL
    /\ Descriptor("/opt/dev/SDKs/MacOSX10.9.sdk/info.ini") = IniMacOSX
    /\ "/opt/dev/Toolchains/XcodeDefault.toolchain" \in fs_dirs
    /\ NoTargetInEnvironment /\ environ["TARGET_TRIPLE"] = NULL
    /\ fs_exec = {"/opt/dev/Toolchains/XcodeDefault.toolchain/usr/bin/clang"}

\* the run came to execve with the binary and the two variables of the scenario
ScenarioExec ==
    /\ cmd = "/opt/dev/Toolchains/XcodeDefault.toolchain/usr/bin/clang"
    /\ Env("MACOSX_DEPLOYMENT_TARGET", "10.9") \in Range(envp)
    /\ Env("TARGET_TRIPLE", "x86_64-apple-darwin13") \in Range(envp)

C17_EndToEnd == (Scenario /\ Ended) => ScenarioExec

(***************************************************************************)
(* C18.  get_multicall_state gives i+1 for the entry i (from 0) of the     *)
(* array that equals cmd, the last entry too; so when xcrun is called by   *)
(* one of its four multicall names main goes to xcrun_main, and            *)
(* request_command is never given the calling name as the tool to locate.  *)
(***************************************************************************)
C18_MulticallDispatch ==
    (argv.prog \in Range(multicall_tool_names) /\ pc \notin {"main", "crash"}) =>
        /\ \A i \in 0..3 :
             multicall_tool_names[i + 1] = argv.prog =>
               get_multicall_state(argv.prog, multicall_tool_names, 4) = i + 1
        /\ caller # "main" /\ tool_called # argv.prog

(***************************************************************************)
(* C19.  The SDK that xcrun resolves for --sdk N, for --sdk N.sdk and for  *)
(* SDKROOT=<dir>/N.sdk is the SDK named N, whose directory is              *)
(* <root>/SDKs/N.sdk, also when N has a "." in it as in MacOSX10.9; and    *)
(* the toolchain resolved for --toolchain N, --toolchain N.toolchain and   *)
(* TOOLCHAINS=<dir>/N.toolchain is the toolchain named N.                  *)
(***************************************************************************)
\* the name N in what was given: the last component, without the extension
\* ext when it ends with it
NameIn(given, ext) ==
    LET last == basename(Chars(given))
        n == Len(last)
    IN  IF n > 2 /\ last[n - 1] = "." /\ last[n] = ext
          THEN Str(SubSeq(last, 1, n - 2))
          ELSE Str(last)

\* request_command has resolved the names
NamesResolved == pc \notin {"main", "xcrun_main", "request_command", "crash"}
                   /\ current_sdk # NULL /\ current_toolchain # NULL

C19_NamesResolve ==
    /\ (SdkNameFlag /\ explicit_sdk_mode = 1) =>
          SdkOf(current_sdk) = SdkOf(NameIn(argv.sdk, "sdk"))
    /\ (ToolchainNameFlag /\ explicit_toolchain_mode = 1) =>
          ToolchainOf(current_toolchain) = ToolchainOf(NameIn(argv.toolchain, "toolchain"))
    /\ (NamesResolved /\ argv.sdk = NULL /\ environ["SDKROOT"] # NULL
           /\ caller = "xcrun_main") =>
          SdkOf(current_sdk) = SdkOf(NameIn(environ["SDKROOT"], "sdk"))
    /\ (NamesResolved /\ argv.toolchain = NULL /\ environ["TOOLCHAINS"] # NULL
           /\ caller = "xcrun_main") =>
          ToolchainOf(current_toolchain) =
            ToolchainOf(NameIn(environ["TOOLCHAINS"], "toolchain"))

(***************************************************************************)
(* C20.  In a run that reaches the process replacement the environment of  *)
(* the tool agrees with the search list: SDKROOT is the SDK directory      *)
(* whose usr/bin is in the search list, PATH is <root>/usr/bin and then    *)
(* the usr/bin of the toolchain directory whose usr/bin is in the search   *)
(* list, and LD_LIBRARY_PATH is the usr/lib of that toolchain directory;   *)
(* in every mode of selection.                                             *)
(***************************************************************************)
\* the SDK directories and the toolchain directories whose usr/bin is in the
\* search list
SearchedSdks ==
    {d \in {SdkOf(n) : n \in {"MacOSX10.9", "MacOSX10", "iPhoneOS"}} \cup {AltSdkPath} :
       Bin(d) \in Range(Entries(search_string))}
SearchedToolchains ==
    {d \in {ToolchainOf(n) : n \in {"XcodeDefault", "iPhone"}} \cup {AltToolchainPath} :
       Bin(d) \in Range(Entries(search_string))}

C20_EnvironmentAgrees ==
    Replacing =>
        /\ SearchedSdks # {} => \E d \in SearchedSdks : envp[1] = Env("SDKROOT", d)
        /\ SearchedToolchains # {} =>
              \E d \in SearchedToolchains :
                 /\ envp[2] = Env("PATH", Bin(Root) \o ":" \o Bin(d))
                 /\ envp[3] = Env("LD_LIBRARY_PATH", d \o "/usr/lib")

====
